---------------------------- MODULE Spec2Model ----------------------------
(* Response decoding and stream demultiplexing of aiodockerpy:             *)
(* APIClient._result, _stream_helper, _multiplexed_buffer_helper,          *)
(* _multiplexed_response_stream_helper, _stream_raw_result,                *)
(* _get_result_tty (aiodockerpy/api/client.py) and                         *)
(* create_api_error_from_http_exception (aiodockerpy/errors.py).           *)
(*                                                                         *)
(* One call of the core is one coroutine or asynchronous generator; an     *)
(* action is the code between two suspension points (await, yield).        *)
(* Bytes are integers 0..255 and a byte string is a sequence of them.      *)
EXTENDS Integers, Sequences, FiniteSets, TLC

VARIABLES
    entry,        \* the core function the caller invoked
    stream,       \* _get_result_tty's stream argument
    is_tty,       \* _get_result_tty's is_tty argument
    json,         \* _result's json argument
    binary,       \* _result's binary argument
    decode,       \* _stream_helper's decode argument
    container,    \* what inspect_container ends with: "error" or Config.Tty
    status,       \* response.status
    reason,       \* response.reason, the message of the HTTP exception
    ctype,        \* TRUE when the response's Content-Type is application/json
    body,         \* the bytes the daemon sends as the response body
    payloads,     \* the payloads the test built body from (<<>> when unframed)
    extra,        \* the bytes the test appended after the last complete frame
    pos,          \* how many body bytes response.content has handed out
    short,        \* TRUE once a read came back shorter than a whole frame part
    handle,       \* the response handle: "idle", "held" or "released"
    releases,     \* how many times the handle's __aexit__ ran
    staleRead,    \* TRUE once the response was read while not held
    pc,           \* where the coroutine stands
    exc,          \* the exception in flight or raised, "none" without one
    apiError,     \* the code and the explanation a raised API error carries
    buf,          \* _multiplexed_buffer_helper's buf / _result's return value
    variant,      \* the kind of value _result returns: "json", "bytes", "text"
    walker,       \* _multiplexed_buffer_helper's cursor
    length,       \* the payload length of the frame being read
    data,         \* _stream_helper's first byte, waiting for the drain
    jbuf,         \* json_stream's text buffer
    out,          \* the elements yielded so far, in order
    result,       \* the value returned to the caller of a non-stream call
    cont,         \* _get_result's cont: <<>> until inspect_container returned
    inspects,     \* how many inspect_container calls _get_result issued
    message,      \* str() of the API error
    other,        \* the call the event loop is not running: its variables
    current       \* which of two concurrent calls the event loop is running

\* What the caller and the daemon supply: no action changes it.
inputs == <<entry, stream, is_tty, json, binary, decode, container, status,
            reason, ctype, body, payloads, extra>>

\* The locals of _get_result's lookup.
lookup == <<cont, inspects>>

\* The event loop's view of two concurrent calls.
peer == <<other, current>>

vars == <<inputs, pos, short, handle, releases, staleRead, pc, exc,
          apiError, buf, variant, walker, length, data, jbuf, out, result,
          lookup, message, peer>>

-----------------------------------------------------------------------------
(* Bounds of the model.                                                    *)

\* The most frames a synthetic multiplexed body holds.
MaxFrames == 3

\* The longest payload of a synthetic frame.
MaxPayload == 2

\* The longest unframed body fed to the raw and chunked readers.
MaxTextLen == 3

\* The longest explanation, in words, of an error body fed to the mapper.
MaxExplLen == 3

\* The most JSON values a synthetic JSON stream holds.
MaxValues == 2

\* Stretches of header and further bytes in a body of any content.
MaxBlocks == 2

-----------------------------------------------------------------------------
(* Program constants.                                                      *)

\* docker.constants.STREAM_HEADER_SIZE_BYTES
STREAM_HEADER_SIZE_BYTES == 8

\* io.DEFAULT_BUFFER_SIZE
DEFAULT_BUFFER_SIZE == 8192

-----------------------------------------------------------------------------
(* Byte strings.                                                           *)

Min(a, b) == IF a < b THEN a ELSE b

\* Python's s[start:end] on a byte string, 0-based, end clipped to len(s).
Slice(s, start, end) == SubSeq(s, start + 1, Min(end, Len(s)))

\* sep.join(parts) with the empty separator.
RECURSIVE Join(_)
Join(parts) ==
    IF parts = <<>> THEN <<>> ELSE Head(parts) \o Join(Tail(parts))

\* The sequences over alphabet of length at most n.
RECURSIVE SeqsUpTo(_, _)
SeqsUpTo(alphabet, n) ==
    IF n = 0 THEN {<<>>}
    ELSE LET shorter == SeqsUpTo(alphabet, n - 1)
         IN  shorter \cup {Append(s, a) : s \in shorter, a \in alphabet}

-----------------------------------------------------------------------------
(* Frame codec: struct format '>BxxxL'.                                    *)

\* struct.unpack('>BxxxL', header)[1]: bytes 4..7 (0-based), big-endian.
UnpackLengthLittleEndian(header) ==
    header[5] + 256 * header[6] + 65536 * header[7] + 16777216 * header[8]

UnpackLengthNoPadding(header) ==
    16777216 * header[2] + 65536 * header[3] + 256 * header[4] + header[5]

UnpackLength(header) ==
    16777216 * header[5] + 65536 * header[6] + 256 * header[7] + header[8]

\* struct.unpack('>BxxxL', header)[0]: byte 0.
UnpackTag(header) == header[1]

\* The header the daemon writes before a payload of n bytes on stream tag.
PackHeader(tag, n) ==
    <<tag, 0, 0, 0,
      (n \div 16777216) % 256, (n \div 65536) % 256, (n \div 256) % 256,
      n % 256>>

-----------------------------------------------------------------------------
(* The synthetic inputs.                                                   *)

\* A payload of n bytes, all different: "A", "B", "C", ...
PayloadOf(n) == [i \in 1..n |-> 64 + i]

Payloads == {PayloadOf(n) : n \in 0..MaxPayload}

\* Frame i of a body is written on stdout (1) or stderr (2), alternating.
TagOf(i) == IF i % 2 = 1 THEN 1 ELSE 2

\* The multiplexed body of the frames carrying ps, from frame number i on.
RECURSIVE MuxFrom(_, _)
MuxFrom(ps, i) ==
    IF ps = <<>> THEN <<>>
    ELSE PackHeader(TagOf(i), Len(Head(ps))) \o Head(ps)
             \o MuxFrom(Tail(ps), i + 1)

Mux(ps) == MuxFrom(ps, 1)

\* What may follow the last complete frame: nothing, or the first 1 to 7
\* bytes of one more header.
Extras ==
    {SubSeq(PackHeader(1, 1), 1, n) : n \in 0..(STREAM_HEADER_SIZE_BYTES - 1)}

\* Unframed bodies: text with an occasional byte that is not ASCII.
Texts == SeqsUpTo({65, 66, 195}, MaxTextLen)

-----------------------------------------------------------------------------
(* Error bodies. A body is written lexeme by lexeme: one code stands for   *)
(* one lexeme of the JSON text or one word of the explanation.             *)

Lex == [lbrace |-> 123, rbrace |-> 125, lbrack |-> 91, rbrack |-> 93,
        space |-> 32, newline |-> 10, message |-> 109, error |-> 101]

Word == [No |-> 78, such |-> 115, image |-> 105, notfound |-> 110,
         nopull |-> 112, foo |-> 102]

Whitespace == {Lex.space, Lex.newline}

Keys == {Lex.message, Lex.error}

Words == {Word.No, Word.such, Word.image, Word.notfound, Word.nopull,
          Word.foo}

\* "No such image"
NoSuchImage == <<Word.No, Word.such, Word.image>>

\* "not found: does not exist or no pull access"
NoPullAccess == <<Word.notfound, Word.nopull>>

\* needle in haystack, on strings.
Contains(haystack, needle) ==
    \E i \in 0..(Len(haystack) - Len(needle)) :
        SubSeq(haystack, i + 1, i + Len(needle)) = needle

\* bytes.strip() / str.strip(): leading and trailing whitespace removed.
RECURSIVE LStrip(_)
LStrip(s) ==
    IF s # <<>> /\ Head(s) \in Whitespace THEN LStrip(Tail(s)) ELSE s

RECURSIVE RStrip(_)
RStrip(s) ==
    IF s # <<>> /\ s[Len(s)] \in Whitespace
    THEN RStrip(SubSeq(s, 1, Len(s) - 1)) ELSE s

Strip(s) == RStrip(LStrip(s))

\* json.loads on a stripped, non-empty text: an object of at most one
\* field whose value is a string, an empty array, or a decode error.
JsonLoads(s) ==
    IF s = <<Lex.lbrack, Lex.rbrack>>
    THEN [kind |-> "array", key |-> 0, value |-> <<>>]
    ELSE IF Len(s) >= 2 /\ s[1] = Lex.lbrace /\ s[Len(s)] = Lex.rbrace
    THEN LET inner == Strip(SubSeq(s, 2, Len(s) - 1))
         IN  IF inner = <<>>
             THEN [kind |-> "object", key |-> 0, value |-> <<>>]
             ELSE IF inner[1] \in Keys
                     /\ \A i \in 2..Len(inner) : inner[i] \in Words
             THEN [kind |-> "object", key |-> inner[1],
                   value |-> Tail(inner)]
             ELSE [kind |-> "invalid", key |-> 0, value |-> <<>>]
    ELSE [kind |-> "invalid", key |-> 0, value |-> <<>>]

\* await response.json(): ClientResponseError on an unexpected mimetype,
\* None on an empty body, json.loads of the stripped body otherwise.
ResponseJson(isJson, text) ==
    IF ~isJson THEN [kind |-> "ClientResponseError", key |-> 0, value |-> <<>>]
    ELSE IF Strip(text) = <<>> THEN [kind |-> "None", key |-> 0, value |-> <<>>]
    ELSE JsonLoads(Strip(text))

\* The class the mapper raises for a status and an explanation.
ClassifyNoImageCheck(code, expl) ==
    IF code = 404 THEN "NotFound" ELSE "APIError"

Classify(code, expl) ==
    IF code = 404
    THEN IF expl # <<>>
            /\ (Contains(expl, NoSuchImage) \/ Contains(expl, NoPullAccess))
         THEN "ImageNotFound"
         ELSE "NotFound"
    ELSE "APIError"

\* create_api_error_from_http_exception: what the call ends with. kind is
\* "none" when it returns, the class of the exception it raises otherwise.
CreateApiError(code, isJson, text) ==
    IF code < 400 THEN [kind |-> "none", code |-> 0, explanation |-> <<>>]
    ELSE LET j == ResponseJson(isJson, text)
         IN  CASE j.kind = "ClientResponseError" ->
                    [kind |-> Classify(code, Strip(text)), code |-> code,
                     explanation |-> Strip(text)]
               [] j.kind = "invalid" ->
                    [kind |-> "ValueError", code |-> 0, explanation |-> <<>>]
               [] j.kind \in {"None", "array"} ->
                    [kind |-> "TypeError", code |-> 0, explanation |-> <<>>]
               [] j.kind = "object" /\ j.key # Lex.message ->
                    [kind |-> "KeyError", code |-> 0, explanation |-> <<>>]
               [] OTHER ->
                    [kind |-> Classify(code, j.value), code |-> code,
                     explanation |-> j.value]

\* The explanations written into the synthetic error bodies.
Explanations == SeqsUpTo(Words, MaxExplLen)

\* The bodies of a failed response: an object with a message, an object
\* with another field, an empty object, an array, a cut-off object, plain
\* text; each with and without whitespace around it.
ErrorCores ==
    {<<Lex.lbrace, Lex.message>> \o e \o <<Lex.rbrace>> : e \in Explanations}
    \cup {<<Lex.lbrace, Lex.error>> \o e \o <<Lex.rbrace>> : e \in Explanations}
    \cup {<<Lex.lbrace, Lex.message>> \o e : e \in Explanations}
    \cup Explanations
    \cup {<<Lex.lbrace, Lex.rbrace>>, <<Lex.lbrack, Lex.rbrack>>}

ErrorBodies ==
    {l \o c \o t : l \in {<<>>, <<Lex.space>>}, c \in ErrorCores,
                   t \in {<<>>, <<Lex.newline>>}}

\* The few error bodies the calls of the core are run on.
CallErrorBodies ==
    {<<Lex.lbrace, Lex.message>> \o NoSuchImage \o <<Lex.rbrace>>,
     <<Lex.lbrace, Lex.message, Word.foo, Lex.rbrace>>,
     <<Lex.lbrace, Lex.error, Word.foo, Lex.rbrace>>,
     <<Lex.lbrace, Lex.message, Word.foo>>,
     <<Word.foo, Lex.newline>>,
     <<>>}

Statuses == {200, 404, 500}

-----------------------------------------------------------------------------
(* The calls.                                                              *)

\* _get_result_tty's choice among the four consumption modes, and
\* _stream_helper(decode=False) called on its own.
Wrappers ==
    {"restart", "remove_network", "connect_container_to_network",
     "remove_image"}

\* _get_result_tty has been called: by the caller, or by _get_result
\* once inspect_container returned.
Dispatched ==
    \/ entry = "_get_result_tty"
    \/ entry = "_get_result" /\ cont # <<>>

\* The is_tty _get_result_tty is handed: _get_result passes
\* cont['Config']['Tty'].
IsTtyArgument == is_tty

IsTty == IF entry = "_get_result" THEN cont[1] ELSE is_tty

Fn ==
    CASE entry = "_stream_helper" -> "_stream_helper"
      [] entry = "_result" -> "_result"
      [] entry \in Wrappers -> "wrapper"
      [] Dispatched /\ IsTty /\ stream -> "_stream_raw_result"
      [] Dispatched /\ IsTty /\ ~stream -> "_result"
      [] Dispatched /\ ~IsTty /\ stream ->
             "_multiplexed_response_stream_helper"
      [] Dispatched /\ ~IsTty /\ ~stream -> "_multiplexed_buffer_helper"
      [] OTHER -> "none"

Generators ==
    {"_stream_helper", "_stream_raw_result",
     "_multiplexed_response_stream_helper"}

\* The locals of a call that has not run yet.
Fresh ==
    /\ pos = 0
    /\ short = FALSE
    /\ handle = "idle"
    /\ releases = 0
    /\ staleRead = FALSE
    /\ exc = "none"
    /\ apiError = [code |-> 0, explanation |-> <<>>]
    /\ buf = <<>>
    /\ walker = 0
    /\ length = 0
    /\ data = <<>>
    /\ out = <<>>
    /\ result = <<>>
    /\ variant = "none"
    /\ jbuf = <<>>
    /\ cont = <<>>
    /\ inspects = 0
    /\ message = <<>>

\* The arguments a call does not take; _get_result_tty and
\* _multiplexed_buffer_helper hand _result binary=True.
Plain ==
    /\ json = FALSE
    /\ binary = TRUE
    /\ decode = FALSE
    /\ container = "none"
    /\ reason = <<>>

\* A successful response carrying frames, to any mode; the raw modes get at
\* most one frame, the chunked reader none (its body is what follows).
InitFramed ==
    /\ Plain
    /\ entry \in {"_get_result_tty", "_stream_helper"}
    /\ stream \in BOOLEAN
    /\ is_tty \in BOOLEAN
    /\ status = 200
    /\ ctype = FALSE
    /\ payloads \in SeqsUpTo(Payloads, MaxFrames)
    /\ extra \in Extras
    /\ Fn \in {"_result", "_stream_raw_result"} => Len(payloads) <= 1
    /\ Fn = "_stream_helper" => payloads = <<>> /\ ~stream /\ ~is_tty
    /\ body = Mux(payloads) \o extra

\* A successful response carrying unframed text, to the modes of a TTY
\* container and to the chunked reader.
InitText ==
    /\ Plain
    /\ entry \in {"_get_result_tty", "_stream_helper"}
    /\ stream \in BOOLEAN
    /\ is_tty \in BOOLEAN
    /\ entry = "_get_result_tty" => is_tty
    /\ entry = "_stream_helper" => ~stream /\ ~is_tty
    /\ status = 200
    /\ ctype = FALSE
    /\ payloads = <<>>
    /\ extra \in Texts
    /\ body = extra

\* A failed response, to any mode.
InitFailed ==
    /\ Plain
    /\ entry \in {"_get_result_tty", "_stream_helper"}
    /\ stream \in BOOLEAN
    /\ is_tty \in BOOLEAN
    /\ entry = "_stream_helper" => ~stream /\ ~is_tty
    /\ status \in {404, 500}
    /\ ctype \in BOOLEAN
    /\ payloads = <<>>
    /\ extra = <<>>
    /\ body \in CallErrorBodies

\* _result called on its own, with every choice of its flags, and the
\* one-line endpoint wrappers, on a response of any status.
InitResult ==
    /\ entry \in {"_result"} \cup Wrappers
    /\ stream = FALSE
    /\ is_tty = FALSE
    /\ json \in BOOLEAN
    /\ binary \in BOOLEAN
    /\ entry \in Wrappers => ~json /\ ~binary
    /\ decode = FALSE
    /\ container = "none"
    /\ reason = <<>>
    /\ status \in Statuses
    /\ ctype \in BOOLEAN
    /\ payloads = <<>>
    /\ extra = <<>>
    /\ body \in CallErrorBodies

\* The mapper called on the response of a call.
InitMapper ==
    /\ Plain
    /\ entry = "create_api_error_from_http_exception"
    /\ stream = FALSE
    /\ is_tty = FALSE
    /\ status \in Statuses
    /\ ctype \in BOOLEAN
    /\ payloads = <<>>
    /\ extra = <<>>
    /\ body \in CallErrorBodies

\* _get_result on a container whose lookup fails, that has a TTY or that
\* has none, on a response of at most one frame.
InitLookup ==
    /\ entry = "_get_result"
    /\ stream \in BOOLEAN
    /\ is_tty = FALSE
    /\ json = FALSE
    /\ binary = TRUE
    /\ decode = FALSE
    /\ container \in {"error", "tty", "plain"}
    /\ reason = <<>>
    /\ status \in {200, 500}
    /\ ctype = FALSE
    /\ payloads \in {<<p>> : p \in Payloads}
    /\ extra = <<>>
    /\ body = Mux(payloads)

\* The JSON values of a synthetic stream: {}, [], {"message": "foo"}.
JsonValues ==
    {<<Lex.lbrace, Lex.rbrace>>, <<Lex.lbrack, Lex.rbrack>>,
     <<Lex.lbrace, Lex.message, Word.foo, Lex.rbrace>>}

\* What may follow the last value: nothing, a newline, the start of one
\* more object, a stray closing brace.
JsonTails ==
    {<<>>, <<Lex.newline>>, <<Lex.lbrace, Lex.message>>, <<Lex.rbrace>>}

\* The values vs written one after the other, value i followed by seps[i].
RECURSIVE Weave(_, _)
Weave(vs, seps) ==
    IF vs = <<>> THEN <<>>
    ELSE Head(vs) \o Head(seps) \o Weave(Tail(vs), Tail(seps))

\* A successful response carrying JSON values, each followed by a newline
\* or by nothing, to _stream_helper(decode=True).
InitJson ==
    /\ entry = "_stream_helper"
    /\ stream = FALSE
    /\ is_tty = FALSE
    /\ json = FALSE
    /\ binary = TRUE
    /\ decode = TRUE
    /\ container = "none"
    /\ reason = <<>>
    /\ status = 200
    /\ ctype = TRUE
    /\ payloads \in SeqsUpTo(JsonValues, MaxValues)
    /\ extra \in JsonTails
    /\ \E seps \in [1..Len(payloads) -> {<<>>, <<Lex.newline>>}] :
           body = Weave(payloads, seps) \o extra

\* A successful response whose last frame is cut off: its header declares
\* more bytes than the body holds after it. To the two demultiplex modes.
InitTruncated ==
    /\ Plain
    /\ entry = "_get_result_tty"
    /\ stream \in BOOLEAN
    /\ is_tty = FALSE
    /\ status = 200
    /\ ctype = FALSE
    /\ payloads \in SeqsUpTo(Payloads, 1)
    /\ extra \in {PackHeader(1, 1), PackHeader(1, 2) \o PayloadOf(1)}
    /\ body = Mux(payloads) \o extra

\* Where a call starts.
StartOf(e) ==
    CASE e = "create_api_error_from_http_exception" -> "mapper"
      [] e = "_get_result" -> "inspect"
      [] OTHER -> "start"

\* A call that runs with no other call beside it.
Alone ==
    /\ other = <<>>
    /\ current = 1

Init ==
    /\ Fresh
    /\ Alone
    /\ \/ InitFramed
       \/ InitText
       \/ InitFailed
       \/ InitResult
       \/ InitMapper
       \/ InitLookup
       \/ InitJson
       \/ InitTruncated
    /\ pc = StartOf(entry)

\* _get_result: cont = await self.inspect_container(container), up to the
\* call of _get_result_tty; the call raises what the lookup raised.
Inspect ==
    /\ pc = "inspect"
    /\ inspects' = inspects + 1
    /\ IF container = "error"
       THEN /\ exc' = "InspectError"
            /\ pc' = "raised"
            /\ cont' = cont
       ELSE /\ cont' = <<container = "tty">>
            /\ pc' = "start"
            /\ exc' = exc
    /\ UNCHANGED <<inputs, pos, short, handle, releases, staleRead, apiError,
                   buf, walker, length, data, out, result, variant, jbuf,
                   message, peer>>

\* response.content.read(n): the sizes the read may come back with. It
\* waits for data and hands out what has arrived, at most n bytes; nothing
\* only at the end of the body.
ReadSizes(n) ==
    IF pos = Len(body) THEN {0} ELSE 1..Min(n, Len(body) - pos)

\* The k bytes a read hands out.
ReadBytes(k) == SubSeq(body, pos + 1, pos + k)

\* A read of the response marks it stale when the handle is not held.
Touch == staleRead' = (staleRead \/ handle # "held")

\* async with async_response as response: __aenter__. A generator runs it
\* when its first element is asked for.
\* assert not (json and binary)
AssertNeverFails(isJson, isBinary) == FALSE

AssertFails(isJson, isBinary) == isJson /\ isBinary

\* _result starts with the assertion on its flags.
Enter ==
    /\ pc = "start"
    /\ IF /\ Fn \in {"_result", "_multiplexed_buffer_helper"}
          /\ AssertFails(json, binary)
       THEN /\ exc' = "AssertionError"
            /\ pc' = "raised"
            /\ handle' = handle
       ELSE /\ handle' = "held"
            /\ pc' = IF Fn = "_stream_helper" THEN "read1" ELSE "check"
            /\ exc' = exc
    /\ UNCHANGED <<inputs, pos, short, releases, staleRead, apiError, buf,
                   walker, length, data, out, result, lookup, variant, jbuf,
                   message, peer>>

\* Where a mode goes on after a status check that did not raise. The
\* buffered mode is inside _result there, and goes on to its read.
AfterCheckWalksInside ==
    CASE Fn = "_multiplexed_response_stream_helper" -> "header"
      [] Fn = "_stream_raw_result" -> "iter"
      [] Fn = "wrapper" -> "exit"
      [] Fn = "_multiplexed_buffer_helper" -> "walk"
      [] OTHER -> "read"

AfterCheck ==
    CASE Fn = "_multiplexed_response_stream_helper" -> "header"
      [] Fn = "_stream_raw_result" -> "iter"
      [] Fn = "wrapper" -> "exit"
      [] OTHER -> "read"

\* response.raise_for_status() raises from status 400 on.
RaisesForStatusFrom200(st) == st >= 200

RaisesForStatus(st) == st >= 400

\* await self._raise_for_status_aiodockerpy(response); raise of what the
\* mapper returned is a TypeError when that is None.
RaiseForStatus ==
    /\ pc = "check"
    /\ LET e == CreateApiError(status, ctype, body)
       IN  IF ~RaisesForStatus(status)
           THEN /\ pc' = AfterCheck
                /\ UNCHANGED <<exc, apiError, staleRead, pos>>
           ELSE /\ exc' = IF e.kind = "none" THEN "TypeError" ELSE e.kind
                /\ apiError' = [code |-> e.code, explanation |-> e.explanation]
                /\ pos' = Len(body)
                /\ Touch
                /\ pc' = "exit"
    /\ UNCHANGED <<inputs, short, handle, releases, buf, walker, length, data,
                   out, result, lookup, variant, jbuf, message, peer>>

\* The parsed value of a JSON text, written without its whitespace.
Canon(j) ==
    CASE j.kind = "array" -> <<Lex.lbrack, Lex.rbrack>>
      [] j.kind = "object" /\ j.key = 0 -> <<Lex.lbrace, Lex.rbrace>>
      [] j.kind = "object" -> <<Lex.lbrace, j.key>> \o j.value \o <<Lex.rbrace>>
      [] OTHER -> <<>>

\* What _result's return statement evaluates: await response.json() when
\* json, await response.read() when binary, await response.text()
\* otherwise. kind is the variant, or the exception the await raises.
ResultValue(isJson, isBinary) ==
    IF isJson
    THEN LET j == ResponseJson(ctype, body)
         IN  CASE j.kind = "ClientResponseError" ->
                    [kind |-> "ClientResponseError", value |-> <<>>]
               [] j.kind = "invalid" -> [kind |-> "ValueError", value |-> <<>>]
               [] OTHER -> [kind |-> "json", value |-> Canon(j)]
    ELSE IF isBinary THEN [kind |-> "bytes", value |-> body]
    ELSE [kind |-> "text", value |-> body]

\* _result: the return statement inside the with block.
ResultRead ==
    /\ pc = "read"
    /\ LET r == ResultValue(json, binary)
       IN  IF r.kind \in {"json", "bytes", "text"}
           THEN /\ buf' = r.value
                /\ variant' = r.kind
                /\ exc' = exc
           ELSE /\ exc' = r.kind
                /\ UNCHANGED <<buf, variant>>
    /\ pos' = Len(body)
    /\ Touch
    /\ pc' = "exit"
    /\ UNCHANGED <<inputs, short, handle, releases, apiError, walker, length,
                   data, out, result, lookup, jbuf, message, peer>>

\* Where the call stands once the with block is left.
AfterExit ==
    CASE exc = "GeneratorExit" -> "closed"
      [] exc # "none" -> "raised"
      [] Fn \in {"_result", "wrapper"} -> "returned"
      [] Fn = "_stream_helper" /\ decode -> "leftover"
      [] Fn = "_multiplexed_buffer_helper" -> "walk"
      [] OTHER -> "done"

\* __aexit__ of the with block, on return, break, exception or close.
ExitKeepsFailed ==
    /\ pc = "exit"
    /\ handle' = IF exc \in {"none", "GeneratorExit"} THEN "released"
                 ELSE handle
    /\ releases' = IF exc \in {"none", "GeneratorExit"} THEN releases + 1
                   ELSE releases
    /\ result' = IF exc = "none" /\ Fn = "_result" THEN buf ELSE result
    /\ pc' = AfterExit
    /\ UNCHANGED <<inputs, pos, short, staleRead, exc, apiError, buf, walker,
                   length, data, out, lookup, variant, jbuf, message, peer>>

Exit ==
    /\ pc = "exit"
    /\ handle' = "released"
    /\ releases' = releases + 1
    /\ result' = IF exc = "none" /\ Fn = "_result" THEN buf ELSE result
    /\ pc' = AfterExit
    /\ UNCHANGED <<inputs, pos, short, staleRead, exc, apiError, buf, walker,
                   length, data, out, lookup, variant, jbuf, message, peer>>

-----------------------------------------------------------------------------
(* Buffered-mode demultiplex: _multiplexed_buffer_helper after its         *)
(* _result(binary=True), consumed by _get_result_tty's join.               *)

\* if buf_length - walker < STREAM_HEADER_SIZE_BYTES: break
BufferExhaustedAtEnd(buf_length, w) == buf_length - w < 1

BufferExhaustedPastEnd(buf_length, w) == buf_length - w < 0

BufferExhausted(buf_length, w) == buf_length - w < STREAM_HEADER_SIZE_BYTES

\* One turn of the while loop: the break, which ends the generator and lets
\* the caller join what it collected, or the yield of one payload.
BufferWalk ==
    /\ pc = "walk"
    /\ LET buf_length == Len(buf)
           header == Slice(buf, walker, walker + STREAM_HEADER_SIZE_BYTES)
           start == walker + STREAM_HEADER_SIZE_BYTES
       IN  IF BufferExhausted(buf_length, walker)
           THEN /\ result' = Join(out)
                /\ pc' = "returned"
                /\ UNCHANGED <<walker, out, exc>>
           ELSE IF Len(header) < STREAM_HEADER_SIZE_BYTES
           THEN /\ exc' = "struct.error"
                /\ pc' = "raised"
                /\ UNCHANGED <<walker, out, result>>
           ELSE /\ walker' = start + UnpackLength(header)
                /\ out' = Append(out, Slice(buf, start,
                                            start + UnpackLength(header)))
                /\ pc' = "walk"
                /\ UNCHANGED <<exc, result>>
    /\ UNCHANGED <<inputs, pos, short, handle, releases, staleRead, apiError,
                   buf, length, data, lookup, variant, jbuf, message, peer>>

-----------------------------------------------------------------------------
(* Streaming-mode demultiplex: _multiplexed_response_stream_helper.        *)

\* What follows a header read: the break on an empty read, struct.error on
\* a read of 1 to 7 bytes, the continue on a zero length, the payload read.
HeaderOutcomeZeroEnds(header) ==
    CASE header = <<>> -> "break"
      [] Len(header) # STREAM_HEADER_SIZE_BYTES -> "struct.error"
      [] UnpackLength(header) = 0 -> "break"
      [] OTHER -> "payload"

HeaderOutcome(header) ==
    CASE header = <<>> -> "break"
      [] Len(header) # STREAM_HEADER_SIZE_BYTES -> "struct.error"
      [] UnpackLength(header) = 0 -> "continue"
      [] OTHER -> "payload"

\* header = await reader.read(STREAM_HEADER_SIZE_BYTES), up to the payload
\* read or the end of the loop.
MuxHeader ==
    /\ pc = "header"
    /\ \E k \in ReadSizes(STREAM_HEADER_SIZE_BYTES) :
        LET header == ReadBytes(k)
            next == HeaderOutcome(header)
        IN  /\ pos' = pos + k
            /\ short' = (short \/ k \notin {0, STREAM_HEADER_SIZE_BYTES})
            /\ Touch
            /\ length' = IF next \in {"continue", "payload"}
                         THEN UnpackLength(header) ELSE length
            /\ exc' = IF next = "struct.error" THEN "struct.error" ELSE exc
            /\ pc' = CASE next = "continue" -> "header"
                       [] next = "payload" -> "payload"
                       [] OTHER -> "exit"
    /\ UNCHANGED <<inputs, handle, releases, apiError, buf, walker, data, out,
                   result, lookup, variant, jbuf, message, peer>>

\* data = await reader.read(length), up to the yield or the break.
MuxPayload ==
    /\ pc = "payload"
    /\ \E k \in ReadSizes(length) :
        /\ pos' = pos + k
        /\ short' = (short \/ k # length)
        /\ Touch
        /\ IF k = 0
           THEN /\ pc' = "exit"
                /\ out' = out
           ELSE /\ pc' = "yield"
                /\ out' = Append(out, ReadBytes(k))
    /\ UNCHANGED <<inputs, handle, releases, exc, apiError, buf, walker,
                   length, data, result, lookup, variant, jbuf, message,
                   peer>>

-----------------------------------------------------------------------------
(* Raw stream for a TTY container: _stream_raw_result.                     *)

\* bytes.decode() of a chunk of one byte raises on a byte that is not ASCII.
DecodeFails(chunk) == \E i \in 1..Len(chunk) : chunk[i] >= 128

\* One turn of async for out in response.content.iter_chunked(1): a read of
\* one byte, the end of the iteration on an empty read, out.decode(), yield.
RawIter ==
    /\ pc = "iter"
    /\ \E k \in ReadSizes(1) :
        LET chunk == ReadBytes(k)
        IN  /\ pos' = pos + k
            /\ Touch
            /\ IF chunk = <<>>
               THEN /\ pc' = "exit"
                    /\ UNCHANGED <<exc, out>>
               ELSE IF DecodeFails(chunk)
               THEN /\ exc' = "UnicodeDecodeError"
                    /\ pc' = "exit"
                    /\ out' = out
               ELSE /\ out' = Append(out, chunk)
                    /\ pc' = "yield"
                    /\ exc' = exc
    /\ UNCHANGED <<inputs, short, handle, releases, apiError, buf, walker,
                   length, data, result, lookup, variant, jbuf, message,
                   peer>>

-----------------------------------------------------------------------------
(* Chunked reader: _stream_helper(decode=False).                           *)

\* data = await reader.read(1), up to the break or the second read.
ChunkRead1 ==
    /\ pc = "read1"
    /\ \E k \in ReadSizes(1) :
        /\ pos' = pos + k
        /\ Touch
        /\ data' = ReadBytes(k)
        /\ pc' = IF k = 0 THEN "exit" ELSE "drain"
    /\ UNCHANGED <<inputs, short, handle, releases, exc, apiError, buf,
                   walker, length, out, result, lookup, variant, jbuf,
                   message, peer>>

\* The chunk the loop yields: the first byte and what the drain read.
ChunkWithoutFirstByte(first, drained) == drained

Chunk(first, drained) == first \o drained

\* data += await reader.read(io.DEFAULT_BUFFER_SIZE); yield data. With
\* decode the chunk goes to json_stream, which appends it to its buffer.
ChunkDrain ==
    /\ pc = "drain"
    /\ \E k \in ReadSizes(DEFAULT_BUFFER_SIZE) :
        /\ pos' = pos + k
        /\ Touch
        /\ IF decode
           THEN /\ jbuf' = jbuf \o Chunk(data, ReadBytes(k))
                /\ out' = out
                /\ pc' = "parse"
           ELSE /\ out' = Append(out, Chunk(data, ReadBytes(k)))
                /\ jbuf' = jbuf
                /\ pc' = "yield"
        /\ data' = <<>>
    /\ UNCHANGED <<inputs, short, handle, releases, exc, apiError, buf,
                   walker, length, result, lookup, variant, message, peer>>

-----------------------------------------------------------------------------
(* JSON stream decoder: json_stream over the chunks of the chunked reader, *)
(* _stream_helper(decode=True).                                            *)

\* Where the first JSON value of s ends: at the bracket closing the one it
\* opens with; 0 when s does not open a value or does not hold its end.
ValueEnd(s) ==
    IF s = <<>> \/ s[1] \notin {Lex.lbrace, Lex.lbrack} THEN 0
    ELSE LET close == IF s[1] = Lex.lbrace THEN Lex.rbrace ELSE Lex.rbrack
             ends == {i \in 2..Len(s) : s[i] = close}
         IN  IF ends = {} THEN 0
             ELSE CHOOSE i \in ends : \A j \in ends : i <= j

\* The attempt to parse one complete JSON value as a prefix of the buffer,
\* the whitespace before and after it skipped.
JsonPrefixNoSkip(buffer) ==
    LET n == ValueEnd(buffer)
        j == JsonLoads(SubSeq(buffer, 1, n))
    IN  IF n = 0 \/ j.kind = "invalid"
        THEN [ok |-> FALSE, value |-> <<>>, rest |-> buffer]
        ELSE [ok |-> TRUE, value |-> Canon(j),
              rest |-> SubSeq(buffer, n + 1, Len(buffer))]

JsonPrefix(buffer) ==
    LET s == LStrip(buffer)
        n == ValueEnd(s)
        j == JsonLoads(SubSeq(s, 1, n))
    IN  IF n = 0 \/ j.kind = "invalid"
        THEN [ok |-> FALSE, value |-> <<>>, rest |-> buffer]
        ELSE [ok |-> TRUE, value |-> Canon(j),
              rest |-> LStrip(SubSeq(s, n + 1, Len(s)))]

\* One attempt on the buffer: the yield of the value parsed, or the wait
\* for the next chunk.
JsonParse ==
    /\ pc = "parse"
    /\ LET p == JsonPrefix(jbuf)
       IN  IF p.ok
           THEN /\ out' = Append(out, p.value)
                /\ jbuf' = p.rest
                /\ pc' = "yield"
           ELSE /\ pc' = "read1"
                /\ UNCHANGED <<out, jbuf>>
    /\ UNCHANGED <<inputs, pos, short, handle, releases, staleRead, exc,
                   apiError, buf, walker, length, data, result, lookup,
                   variant, message, peer>>

\* What is left in the buffer when the chunks end is an error unless it is
\* whitespace.
LeftoverIgnored(buffer) == FALSE

LeftoverFails(buffer) == Strip(buffer) # <<>>

\* The end of the chunk sequence.
JsonEnd ==
    /\ pc = "leftover"
    /\ IF LeftoverFails(jbuf)
       THEN /\ exc' = "FormatError"
            /\ pc' = "raised"
       ELSE /\ exc' = exc
            /\ pc' = "done"
    /\ UNCHANGED <<inputs, pos, short, handle, releases, staleRead, apiError,
                   buf, walker, length, data, out, result, lookup, variant,
                   jbuf, message, peer>>

-----------------------------------------------------------------------------
(* The consumer of a generator, standing at a yield.                       *)

\* Where a generator goes on when its next element is asked for.
AfterYield ==
    CASE Fn = "_multiplexed_response_stream_helper" -> "header"
      [] Fn = "_stream_raw_result" -> "iter"
      [] Fn = "_stream_helper" /\ decode -> "parse"
      [] OTHER -> "read1"

\* The consumer asks for the next element.
Resume ==
    /\ pc = "yield"
    /\ pc' = AfterYield
    /\ UNCHANGED <<inputs, pos, short, handle, releases, staleRead, exc,
                   apiError, buf, walker, length, data, out, result, lookup,
                   variant, jbuf, message, peer>>

\* The consumer stops iterating and drops the generator. What json_stream
\* does when it is dropped or closed is not in the source: the decoded
\* sequence is consumed to its end.
Abandon ==
    /\ pc = "yield"
    /\ ~decode
    /\ pc' = "abandoned"
    /\ UNCHANGED <<inputs, pos, short, handle, releases, staleRead, exc,
                   apiError, buf, walker, length, data, out, result, lookup,
                   variant, jbuf, message, peer>>

\* The event loop's finalizer closes a dropped generator: GeneratorExit is
\* thrown at the yield and unwinds through the with block.
FinalizeDiscards ==
    /\ pc = "abandoned"
    /\ pc' = "closed"
    /\ UNCHANGED <<inputs, pos, short, handle, releases, staleRead, exc,
                   apiError, buf, walker, length, data, out, result, lookup,
                   variant, jbuf, message, peer>>

Finalize ==
    /\ pc = "abandoned"
    /\ exc' = "GeneratorExit"
    /\ pc' = "exit"
    /\ UNCHANGED <<inputs, pos, short, handle, releases, staleRead, apiError,
                   buf, walker, length, data, out, result, lookup, variant,
                   jbuf, message, peer>>

\* The consumer closes the generator itself: aclose().
Aclose ==
    /\ pc = "yield"
    /\ ~decode
    /\ exc' = "GeneratorExit"
    /\ pc' = "exit"
    /\ UNCHANGED <<inputs, pos, short, handle, releases, staleRead, apiError,
                   buf, walker, length, data, out, result, lookup, variant,
                   jbuf, message, peer>>

-----------------------------------------------------------------------------
(* The mapper called on its own.                                           *)

\* raise await create_api_error_from_http_exception(e, response)
MapperCall ==
    /\ pc = "mapper"
    /\ LET e == CreateApiError(status, ctype, body)
       IN  /\ exc' = e.kind
           /\ apiError' = [code |-> e.code, explanation |-> e.explanation]
    /\ pc' = "mapped"
    /\ UNCHANGED <<inputs, pos, short, handle, releases, staleRead, buf,
                   walker, length, data, out, result, lookup, variant, jbuf,
                   message, peer>>

-----------------------------------------------------------------------------
(* The message of an API error: APIError.__str__.                          *)

\* The fixed parts of a composed message: " Client Error: ",
\* " Server Error: ", ' ("', '")', and what the base class prints.
Txt == [ClientError |-> 1001, ServerError |-> 1002, open |-> 1003,
        close |-> 1004, super |-> 1005]

\* is_client_error, is_server_error
IsClientError(code) == 400 <= code /\ code < 500

IsServerErrorAbove500(code) == 500 < code /\ code < 600

IsServerError(code) == 500 <= code /\ code < 600

\* __str__ of an error of this code, message and explanation.
Str(code, msg, explanation) ==
    LET m == CASE IsClientError(code) -> <<code, Txt.ClientError>> \o msg
               [] IsServerError(code) -> <<code, Txt.ServerError>> \o msg
               [] OTHER -> <<Txt.super>>
    IN  IF explanation # <<>>
        THEN m \o <<Txt.open>> \o explanation \o <<Txt.close>>
        ELSE m

\* str(e) of the API error the mapper raised, whose code and message are
\* the status and the reason of the response.
StrCall ==
    /\ pc = "mapped"
    /\ exc \in {"APIError", "NotFound", "ImageNotFound"}
    /\ message' = Str(apiError.code, reason, apiError.explanation)
    /\ pc' = "printed"
    /\ UNCHANGED <<inputs, pos, short, handle, releases, staleRead, exc,
                   apiError, buf, walker, length, data, out, result, lookup,
                   variant, jbuf, peer>>

-----------------------------------------------------------------------------
(* Two concurrent calls on distinct responses of one client. Each call is  *)
(* a coroutine of its own; the event loop runs one of them and may change  *)
(* to the other wherever the running one stands.                           *)

\* The variables of the running call.
Context ==
    [entry |-> entry, stream |-> stream, is_tty |-> is_tty, json |-> json,
     binary |-> binary, decode |-> decode, container |-> container,
     status |-> status, reason |-> reason, ctype |-> ctype, body |-> body,
     payloads |-> payloads, extra |-> extra, pos |-> pos, short |-> short,
     handle |-> handle, releases |-> releases, staleRead |-> staleRead,
     pc |-> pc, exc |-> exc, apiError |-> apiError, buf |-> buf,
     variant |-> variant, walker |-> walker, length |-> length,
     data |-> data, jbuf |-> jbuf, out |-> out, result |-> result,
     cont |-> cont, inspects |-> inspects, message |-> message]

\* The locals a call finds when it is resumed: those it left. buf, walker
\* and length are locals of the coroutine, not attributes of the client.
OwnedSharingCursor(c) ==
    [c EXCEPT !.buf = buf, !.walker = walker, !.length = length]

Owned(c) == c

\* The call c runs on.
Restore(c) ==
    /\ entry' = c.entry
    /\ stream' = c.stream
    /\ is_tty' = c.is_tty
    /\ json' = c.json
    /\ binary' = c.binary
    /\ decode' = c.decode
    /\ container' = c.container
    /\ status' = c.status
    /\ reason' = c.reason
    /\ ctype' = c.ctype
    /\ body' = c.body
    /\ payloads' = c.payloads
    /\ extra' = c.extra
    /\ pos' = c.pos
    /\ short' = c.short
    /\ handle' = c.handle
    /\ releases' = c.releases
    /\ staleRead' = c.staleRead
    /\ pc' = c.pc
    /\ exc' = c.exc
    /\ apiError' = c.apiError
    /\ buf' = c.buf
    /\ variant' = c.variant
    /\ walker' = c.walker
    /\ length' = c.length
    /\ data' = c.data
    /\ jbuf' = c.jbuf
    /\ out' = c.out
    /\ result' = c.result
    /\ cont' = c.cont
    /\ inspects' = c.inspects
    /\ message' = c.message

\* The event loop leaves the running call where it stands and runs the
\* other one.
Switch ==
    /\ other # <<>>
    /\ other' = Context
    /\ current' = 3 - current
    /\ Restore(Owned(other))

-----------------------------------------------------------------------------
(* The specifications.                                                     *)

Next ==
    \/ Inspect
    \/ Enter
    \/ RaiseForStatus
    \/ ResultRead
    \/ Exit
    \/ BufferWalk
    \/ MuxHeader
    \/ MuxPayload
    \/ RawIter
    \/ ChunkRead1
    \/ ChunkDrain
    \/ JsonParse
    \/ JsonEnd
    \/ Resume
    \/ Abandon
    \/ Finalize
    \/ Aclose
    \/ MapperCall

Spec == Init /\ [][Next]_vars

\* The event loop keeps running: a dropped generator is finalized and an
\* unwinding with block is left.
FairSpec == Spec /\ WF_vars(Finalize) /\ WF_vars(Exit)

\* The mapper on its own, over every status, content type and error body.
MapperInit ==
    /\ pc = "mapper"
    /\ Fresh
    /\ Alone
    /\ Plain
    /\ entry = "create_api_error_from_http_exception"
    /\ stream = FALSE
    /\ is_tty = FALSE
    /\ status \in Statuses
    /\ ctype \in BOOLEAN
    /\ payloads = <<>>
    /\ extra = <<>>
    /\ body \in ErrorBodies

MapperNext == MapperCall

MapperSpec == MapperInit /\ [][MapperNext]_vars

\* The statuses and reasons of the responses whose error is printed.
Codes == {200, 399, 400, 404, 499, 500, 599, 600}

Reasons == {<<>>, <<Word.notfound>>, <<Word.foo, Word.foo>>}

\* The mapper and the printing of its error, over these responses.
StrInit ==
    /\ pc = "mapper"
    /\ Fresh
    /\ Alone
    /\ entry = "create_api_error_from_http_exception"
    /\ stream = FALSE
    /\ is_tty = FALSE
    /\ json = FALSE
    /\ binary = TRUE
    /\ decode = FALSE
    /\ container = "none"
    /\ status \in Codes
    /\ reason \in Reasons
    /\ ctype \in BOOLEAN
    /\ payloads = <<>>
    /\ extra = <<>>
    /\ body \in CallErrorBodies

StrNext == MapperCall \/ StrCall

StrSpec == StrInit /\ [][StrNext]_vars

\* The calls that are run two at a time: the two demultiplex modes on one
\* frame and on three, the chunked reader on two bytes and on three.
PairInputs ==
    {[entry |-> "_get_result_tty", stream |-> s, payloads |-> ps,
      extra |-> <<>>] :
        s \in BOOLEAN,
        ps \in {<<PayloadOf(1)>>,
                <<PayloadOf(2), PayloadOf(0), PayloadOf(1)>>}}
    \cup {[entry |-> "_stream_helper", stream |-> FALSE, payloads |-> <<>>,
           extra |-> t] : t \in {<<65, 66>>, <<66, 65, 66>>}}

\* The variables of a call on the input d that has not run yet.
FreshContext(d) ==
    [entry |-> d.entry, stream |-> d.stream, is_tty |-> FALSE,
     json |-> FALSE, binary |-> TRUE, decode |-> FALSE,
     container |-> "none", status |-> 200, reason |-> <<>>, ctype |-> FALSE,
     body |-> Mux(d.payloads) \o d.extra, payloads |-> d.payloads,
     extra |-> d.extra, pos |-> 0, short |-> FALSE, handle |-> "idle",
     releases |-> 0, staleRead |-> FALSE, pc |-> "start", exc |-> "none",
     apiError |-> [code |-> 0, explanation |-> <<>>], buf |-> <<>>,
     variant |-> "none", walker |-> 0, length |-> 0, data |-> <<>>,
     jbuf |-> <<>>, out |-> <<>>, result |-> <<>>, cont |-> <<>>,
     inspects |-> 0, message |-> <<>>]

PairInit ==
    /\ Fresh
    /\ Plain
    /\ is_tty = FALSE
    /\ status = 200
    /\ ctype = FALSE
    /\ pc = "start"
    /\ \E d \in PairInputs :
           /\ entry = d.entry
           /\ stream = d.stream
           /\ payloads = d.payloads
           /\ extra = d.extra
           /\ body = Mux(d.payloads) \o d.extra
           /\ Context = FreshContext(d)
    /\ other \in {FreshContext(d) : d \in PairInputs}
    /\ current = 1

PairNext ==
    \/ Switch
    \/ Enter
    \/ RaiseForStatus
    \/ ResultRead
    \/ Exit
    \/ BufferWalk
    \/ MuxHeader
    \/ MuxPayload
    \/ ChunkRead1
    \/ ChunkDrain
    \/ Resume

PairSpec == PairInit /\ [][PairNext]_vars

\* Buffered-mode calls on bodies of any content.  A body is up to MaxBlocks
\* stretches of 8 header bytes and 0 to MaxPayload further bytes, whatever
\* length the header declares: a frame may be cut off, or run into the next
\* header, which then starts in the middle of the stretch.  No byte is
\* above 127, so that any four of them spell a length below 2^31.
DeclaredLengths == {0, 1, 9, 1073741824}

Blocks ==
    {<<t[1], t[2], t[2], t[2]>> \o SubSeq(PackHeader(0, n), 5, 8)
         \o PayloadOf(k) :
     t \in {<<1, 0>>, <<127, 127>>}, n \in DeclaredLengths,
     k \in 0..MaxPayload}

WalkInit ==
    /\ Fresh
    /\ Alone
    /\ Plain
    /\ entry = "_get_result_tty"
    /\ stream = FALSE
    /\ is_tty = FALSE
    /\ status = 200
    /\ ctype = FALSE
    /\ payloads = <<>>
    /\ extra \in {Join(bs) : bs \in SeqsUpTo(Blocks, MaxBlocks)}
    /\ body = extra
    /\ pc = "start"

WalkNext ==
    \/ Enter
    \/ RaiseForStatus
    \/ ResultRead
    \/ Exit
    \/ BufferWalk

\* _get_result_tty joins a list comprehension over the generator, and the
\* loop has no await: once buf is there the walk is driven to its end.
WalkSpec == WalkInit /\ [][WalkNext]_vars /\ WF_vars(BufferWalk)

\* Calls on one frame whose header holds any tag, any skipped bytes and
\* any length bytes, followed by 0 to MaxPayload bytes.
TagBytes == {0, 1, 2, 255}

PadBytes == {0, 127}

Headers ==
    {<<t, p1, p2, p3, b4, b5, b6, b7>> :
     t \in TagBytes, p1 \in PadBytes, p2 \in PadBytes, p3 \in PadBytes,
     b4 \in {0, 64}, b5 \in {0, 1}, b6 \in {0, 1}, b7 \in {0, 1, 2, 255}}

DecodeInit ==
    /\ Fresh
    /\ Alone
    /\ Plain
    /\ entry = "_get_result_tty"
    /\ stream \in BOOLEAN
    /\ is_tty = FALSE
    /\ status = 200
    /\ ctype = FALSE
    /\ payloads = <<>>
    /\ extra \in {h \o PayloadOf(k) : h \in Headers, k \in 0..MaxPayload}
    /\ body = extra
    /\ pc = "start"

DecodeNext ==
    \/ Enter
    \/ RaiseForStatus
    \/ ResultRead
    \/ Exit
    \/ BufferWalk
    \/ MuxHeader
    \/ MuxPayload
    \/ Resume

DecodeSpec == DecodeInit /\ [][DecodeNext]_vars

-----------------------------------------------------------------------------
(* The properties.                                                         *)

\* s is the first Len(s) elements of t.
IsPrefix(s, t) ==
    /\ Len(s) <= Len(t)
    /\ \A i \in 1..Len(s) : s[i] = t[i]

\* The payloads of the frames whose length is not zero, in order.
RECURSIVE NonEmpty(_)
NonEmpty(ps) ==
    IF ps = <<>> THEN <<>>
    ELSE IF Head(ps) = <<>> THEN NonEmpty(Tail(ps))
    ELSE <<Head(ps)>> \o NonEmpty(Tail(ps))

Buffered == Fn = "_multiplexed_buffer_helper" /\ status < 400

Streamed == Fn = "_multiplexed_response_stream_helper" /\ status < 400

(* C1: buffered-mode demultiplex of a buffer that is the concatenation of  *)
(* N complete frames yields exactly the N payloads, element i being        *)
(* payload i, and the non-stream non-TTY result of _get_result_tty is      *)
(* their concatenation without separator.                                  *)
BufferedRoundTrip ==
    (Buffered /\ extra = <<>>) =>
        /\ pc # "raised"
        /\ IsPrefix(out, payloads)
        /\ pc = "returned" => out = payloads /\ result = Join(payloads)

BufferedRoundTripWitness ==
    /\ Buffered
    /\ extra = <<>>
    /\ pc = "returned"
    /\ payloads = <<PayloadOf(2), PayloadOf(0), PayloadOf(1)>>
    /\ out = payloads
    /\ result = <<65, 66, 65>>

(* C2: a frame of length 0 between two payload-bearing frames produces no  *)
(* output element of its own in buffered mode and in streaming mode, the   *)
(* two neighbouring payloads are yielded unchanged and in order, and       *)
(* streaming mode does not take it for the end of the stream.              *)
ZeroLengthFrameSkipped ==
    (/\ status < 400
     /\ extra = <<>>
     /\ Len(payloads) = 3
     /\ payloads[1] # <<>> /\ payloads[2] = <<>> /\ payloads[3] # <<>>) =>
        /\ (Buffered /\ pc = "returned") => out = <<payloads[1], payloads[3]>>
        /\ (Streamed /\ ~short /\ pc = "done") =>
               out = <<payloads[1], payloads[3]>>
        /\ (Streamed /\ ~short /\ pc = "exit" /\ exc = "none") =>
               pos = Len(body)

(* C3: in streaming mode, when the payload read for a frame of declared    *)
(* length L > 0 returns fewer than L bytes (none, or 1 to L-1), the        *)
(* sequence ends without error, without yielding the short payload and     *)
(* without reading what follows as a header.                               *)
ShortPayloadEndsStream ==
    [][(pc = "payload" /\ length > 0 /\ pos' - pos < length) =>
           (pc' = "exit" /\ exc' = "none" /\ out' = out)]_vars

(* C4: streaming-mode demultiplex of a stream whose header reads return 8  *)
(* bytes, or none at the end, and whose payload reads return the declared  *)
(* length, yields the payloads of the frames of non-zero length, one       *)
(* element each and in order, raises nothing, and ends exactly when a      *)
(* header read returns no byte.                                            *)
StreamWellFormed ==
    /\ []((Streamed /\ ~short) =>
            /\ exc \in {"none", "GeneratorExit"}
            /\ IsPrefix(out, NonEmpty(payloads))
            /\ pc = "done" => out = NonEmpty(payloads) /\ pos = Len(body))
    /\ [][(Streamed /\ pc = "header" /\ ~short') =>
            ((pc' = "exit" /\ exc' = "none") <=> (pos' = pos))]_vars

StreamWellFormedWitness ==
    /\ Streamed
    /\ ~short
    /\ pc = "done"
    /\ payloads = <<PayloadOf(2), PayloadOf(0), PayloadOf(1)>>
    /\ out = <<PayloadOf(2), PayloadOf(1)>>

(* C5: in buffered mode a buffer of N complete frames followed by 1 to 7   *)
(* extra bytes yields the same N payloads as the buffer without the extra  *)
(* bytes; no error is raised and no extra element is produced.             *)
TruncatedTrailingHeader ==
    (Buffered /\ Len(extra) \in 1..(STREAM_HEADER_SIZE_BYTES - 1)) =>
        /\ pc # "raised"
        /\ exc = "none"
        /\ IsPrefix(out, payloads)
        /\ pc = "returned" => out = payloads /\ result = Join(payloads)

TruncatedTrailingHeaderWitness ==
    /\ Buffered
    /\ Len(extra) = 3
    /\ pc = "returned"
    /\ payloads = <<PayloadOf(1), PayloadOf(2)>>
    /\ out = payloads

(* C6: the dispatch of _get_result_tty over (stream, tty). (false, true)   *)
(* returns the whole raw body; (true, true) returns a lazy sequence of     *)
(* text-decoded raw chunks of the chunked reader's shape, one byte and     *)
(* then what a drain read hands out, so that only a chunk ending the body  *)
(* is a single byte, with no frame parsing; (false, false) returns the     *)
(* concatenation of the buffered-mode payloads; (true, false) returns the  *)
(* streaming-mode sequence, one element per payload.                       *)
DispatchTable ==
    (entry = "_get_result_tty" /\ status < 400) =>
        /\ (~stream /\ is_tty /\ pc = "returned") => result = body
        /\ (stream /\ is_tty) =>
               /\ Join(out) = SubSeq(body, 1, Len(Join(out)))
               /\ \A i \in 1..Len(out) :
                      \/ Len(out[i]) >= 2
                      \/ i = Len(out) /\ pos = Len(body)
        /\ (~stream /\ ~is_tty /\ pc = "returned") =>
               result = Join(payloads)
        /\ (stream /\ ~is_tty /\ pc = "done") => out = NonEmpty(payloads)

Terminal == pc \in {"returned", "done", "raised", "closed"}

(* C7: a consumer that takes the first element of a streaming sequence and *)
(* then drops or closes it: the response handle is released in the end,    *)
(* and no state in which a call has ended still holds the handle.          *)
EarlyStopReleases ==
    /\ [](Terminal => handle # "held")
    /\ (pc = "abandoned") ~> (handle = "released")
    /\ (pc = "exit" /\ exc = "GeneratorExit") ~> (handle = "released")

EarlyStopReleasesWitness ==
    /\ Streamed
    /\ pc = "closed"
    /\ Len(out) = 1
    /\ pos < Len(body)
    /\ handle = "released"

\* What ends a call before its with block: the assertion of _result and
\* the failure of _get_result's inspect_container call.
RaisedBeforeEnter == {"AssertionError", "InspectError"}

(* C8: in every consumption mode the handle, once acquired, is released    *)
(* exactly once: on normal exhaustion, on an API error of the status       *)
(* check, on a decode or format error in mid-stream; and the response is   *)
(* never read after the release.                                           *)
ScopedAcquisition ==
    /\ releases <= 1
    /\ (handle = "released") <=> (releases = 1)
    /\ (Terminal \/ pc = "walk") =>
           \/ releases = 1
           \/ pc = "raised" /\ exc \in RaisedBeforeEnter /\ handle = "idle"
    /\ ~staleRead
    /\ pc \in {"check", "read", "header", "payload", "iter", "read1",
               "drain", "yield", "abandoned", "exit"} => handle = "held"

ScopedAcquisitionWitness ==
    /\ pc = "raised"
    /\ exc = "UnicodeDecodeError"
    /\ out # <<>>
    /\ releases = 1
    /\ handle = "released"

TypedErrors == {"APIError", "NotFound", "ImageNotFound"}

\* The body is a JSON object {"message": "..."} served as application/json.
HasMessage ==
    LET s == Strip(body)
    IN  /\ ctype
        /\ Len(s) >= 3
        /\ s[1] = Lex.lbrace /\ s[2] = Lex.message /\ s[Len(s)] = Lex.rbrace
        /\ \A i \in 3..(Len(s) - 1) : s[i] \in Words

\* The string of that message field.
Message == SubSeq(Strip(body), 3, Len(Strip(body)) - 1)

ExplanationExtraction ==
    (pc = "mapped" /\ status >= 400) =>
        /\ exc \in TypedErrors
        /\ HasMessage => apiError.explanation = Message
        /\ ~HasMessage => apiError.explanation = Strip(body)

\* What the mapper can end with when it does not return.
MapperErrors == TypedErrors \cup {"ValueError", "TypeError", "KeyError"}

(* C11: a response with status < 400 raises nothing from the status       *)
(* check: the mapper called on it returns, no call ends with an error of  *)
(* the mapper, _result with binary or text requested returns the body,    *)
(* empty or not JSON as it may be, and the one-line endpoint wrappers     *)
(* return.                                                                *)
NoErrorBelow400 ==
    status < 400 =>
        /\ pc = "mapped" => exc = "none"
        /\ exc \notin TypedErrors \cup {"TypeError", "KeyError"}
        /\ (Fn = "wrapper" \/ (entry = "_result" /\ ~json)) =>
               /\ exc = "none"
               /\ pc # "raised"
               /\ (pc = "returned" /\ Fn = "wrapper") => result = <<>>
               /\ (pc = "returned" /\ Fn = "_result") =>
                      /\ result = body
                      /\ variant = IF binary THEN "bytes" ELSE "text"

NoErrorBelow400Witness ==
    /\ entry = "_result"
    /\ ~json /\ ~binary
    /\ status = 200
    /\ body = <<Lex.lbrace, Lex.message, Word.foo>>
    /\ pc = "returned"
    /\ result = body
    /\ variant = "text"

(* C12: on a response of status 400 or more every consumption mode ends   *)
(* by raising the mapped API error, and before that returns no value and  *)
(* yields no element: the body of the failed response is never handed out *)
(* as data.                                                               *)
FailedResponseSurfaces ==
    (status >= 400 /\ Fn # "none" /\ ~(json /\ binary)) =>
        /\ out = <<>>
        /\ result = <<>>
        /\ pc \notin {"yield", "done", "returned"}
        /\ pc = "raised" => exc \in TypedErrors

(* C13: _get_result issues exactly one inspect_container call, which has  *)
(* returned before the response handle is entered and before any byte of  *)
(* the response is read; the mode it dispatches to is the one of the      *)
(* Config.Tty value the call returned; when the call fails, its error is  *)
(* raised and the handle is never acquired.                               *)
LookupFirst ==
    entry = "_get_result" =>
        /\ inspects = IF pc = "inspect" THEN 0 ELSE 1
        /\ (handle # "idle" \/ pos > 0 \/ out # <<>>) =>
               (cont # <<>> /\ container # "error")
        /\ cont # <<>> =>
               Fn = CASE container = "tty" /\ stream -> "_stream_raw_result"
                      [] container = "tty" /\ ~stream -> "_result"
                      [] container = "plain" /\ stream ->
                             "_multiplexed_response_stream_helper"
                      [] OTHER -> "_multiplexed_buffer_helper"
        /\ (container = "error" /\ pc # "inspect") =>
               /\ pc = "raised"
               /\ exc = "InspectError"
               /\ handle = "idle"
               /\ releases = 0
               /\ ~staleRead

LookupFirstWitness ==
    /\ entry = "_get_result"
    /\ container = "tty"
    /\ stream
    /\ inspects = 1
    /\ pc = "done"
    /\ out = <<<<1>>, <<0>>, <<0>>, <<0>>, <<0>>, <<0>>, <<0>>, <<1>>, <<65>>>>

\* A call of _stream_helper(decode=True) on a successful response.
Decoded == Fn = "_stream_helper" /\ decode /\ status < 400

LeftoverAtEnd ==
    Decoded =>
        /\ pc = "done" => (Strip(extra) = <<>> /\ Strip(jbuf) = <<>>)
        /\ pc = "raised" =>
               /\ exc = "FormatError"
               /\ Strip(extra) # <<>>
               /\ out = payloads
        /\ (pc \in {"done", "raised"} /\ Strip(extra) = <<>>) => pc = "done"
        /\ (pc \in {"done", "raised"} /\ Strip(extra) # <<>>) => pc = "raised"

LeftoverAtEndWitness ==
    /\ Decoded
    /\ pc = "raised"
    /\ exc = "FormatError"
    /\ extra = <<Lex.lbrace, Lex.message>>
    /\ Len(out) = 2
    /\ jbuf = extra

(* C16: in streaming mode a header read that returns 1 to 7 bytes with    *)
(* the stream at its end makes the sequence fail with a format error,     *)
(* without a yield and without a silent end; a header read that returns   *)
(* 1 to 7 bytes while more data is pending is not that failure.           *)
ShortHeaderOnlyAtEnd ==
    [][(/\ Streamed
        /\ pc = "header"
        /\ pos' - pos \in 1..(STREAM_HEADER_SIZE_BYTES - 1)) =>
           IF pos' = Len(body)
           THEN exc' = "struct.error" /\ pc' = "exit" /\ out' = out
           ELSE exc' # "struct.error"]_vars

(* C17: the message of an API error is "<status> Client Error: <reason>"  *)
(* for a status of 400 to 499 and "<status> Server Error: <reason>" for   *)
(* a status of 500 to 599, followed by the explanation in parentheses and *)
(* quotes when the explanation is not empty; the message of every error   *)
(* of status 500 starts with "500 Server Error:".                         *)
ComposedMessage ==
    pc = "printed" =>
        LET tail == IF apiError.explanation = <<>> THEN <<>>
                    ELSE <<Txt.open>> \o apiError.explanation
                             \o <<Txt.close>>
        IN  /\ apiError.code = status
            /\ status \in 400..499 =>
                   message = <<status, Txt.ClientError>> \o reason \o tail
            /\ status \in 500..599 =>
                   message = <<status, Txt.ServerError>> \o reason \o tail
            /\ status = 500 => IsPrefix(<<500, Txt.ServerError>>, message)

ComposedMessageWitness ==
    /\ pc = "printed"
    /\ status = 500
    /\ reason = <<Word.foo, Word.foo>>
    /\ message = <<500, Txt.ServerError, Word.foo, Word.foo, Txt.open,
                   Word.foo, Txt.close>>

(* C18: a call of _result produces one variant, the one its flags select: *)
(* the parsed JSON value when json is set, the raw bytes when binary is   *)
(* set, the decoded text when neither is; json and binary together are    *)
(* rejected by the assertion before the response handle is acquired, and  *)
(* nothing of the response is consumed.                                   *)
SingleResultSelection ==
    entry = "_result" =>
        /\ variant \in {"none", IF json THEN "json"
                                ELSE IF binary THEN "bytes" ELSE "text"}
        /\ pc = "returned" =>
               /\ variant # "none"
               /\ json => (ctype /\ result = Canon(ResponseJson(ctype, body)))
               /\ ~json => result = body
        /\ (json /\ binary) =>
               /\ pc \in {"start", "raised"}
               /\ pc = "raised" => exc = "AssertionError"
               /\ handle = "idle"
               /\ releases = 0
               /\ pos = 0
               /\ ~staleRead
               /\ variant = "none"

SingleResultSelectionWitness ==
    /\ entry = "_result"
    /\ json /\ ~binary
    /\ status = 200
    /\ pc = "returned"
    /\ variant = "json"
    /\ result = <<Lex.lbrace, Lex.message, Word.foo, Lex.rbrace>>

(* C19: every element either demultiplex mode yields is exactly as long   *)
(* as the header it was read under declares, on every input: a buffer     *)
(* whose last header declares more bytes than remain and a stream whose   *)
(* payload read comes back short included.                                *)
FrameLengthOnOutput ==
    [][((Buffered \/ Streamed) /\ Len(out') = Len(out) + 1) =>
           Len(out'[Len(out')]) =
               IF Buffered
               THEN UnpackLength(Slice(buf, walker,
                                       walker + STREAM_HEADER_SIZE_BYTES))
               ELSE length]_vars

\* A call of _stream_helper(decode=False).
Chunked == Fn = "_stream_helper" /\ ~decode

(* C20: the chunked reader, _stream_helper with decode off: every chunk   *)
(* it yields is non-empty, the chunks yielded so far, with the byte       *)
(* waiting for its drain, are the bytes the source has delivered, in      *)
(* order, whatever sizes the reads return, and the sequence ends exactly  *)
(* when the one-byte read returns nothing.                                *)
ChunkedReader ==
    /\ [](Chunked =>
            /\ \A i \in 1..Len(out) : out[i] # <<>>
            /\ Join(out) \o data = SubSeq(body, 1, pos)
            /\ exc \in {"none", "GeneratorExit"}
            /\ pc = "done" => Join(out) = body)
    /\ [][(Chunked /\ pc = "read1") =>
            ((pc' = "exit" /\ exc' = "none") <=> (pos' = pos))]_vars
    /\ [][(Chunked /\ pc = "drain") => pc' = "yield"]_vars

ChunkedReaderWitness ==
    /\ Chunked
    /\ pc = "done"
    /\ body = <<65, 66, 195>>
    /\ out = <<<<65, 66>>, <<195>>>>

(* C21: in buffered mode the whole body has been read and the response    *)
(* handle released, through _result, before the first payload is yielded; *)
(* while the frames are walked nothing is read from the connection and    *)
(* the handle stays released, so a walk abandoned at any point leaves no   *)
(* handle held.                                                            *)
BufferedReadsFirst ==
    /\ [](Fn = "_multiplexed_buffer_helper" =>
            /\ (pc = "walk" \/ out # <<>>) =>
                   /\ handle = "released"
                   /\ releases = 1
                   /\ pos = Len(body)
                   /\ buf = body
                   /\ variant = "bytes"
            /\ handle = "held" => (out = <<>> /\ walker = 0))
    /\ [][(Fn = "_multiplexed_buffer_helper" /\ pc = "walk") =>
            /\ pos' = pos
            /\ handle' = handle
            /\ releases' = releases
            /\ buf' = buf
            /\ ~staleRead']_vars

BufferedReadsFirstWitness ==
    /\ Fn = "_multiplexed_buffer_helper"
    /\ pc = "walk"
    /\ payloads = <<PayloadOf(1), PayloadOf(2)>>
    /\ out = <<PayloadOf(1)>>
    /\ walker < Len(buf)
    /\ handle = "released"

\* What a call yields when it runs alone: buffered mode the payloads,
\* streaming mode the non-empty payloads while no read comes back short,
\* the chunked reader the bytes read.
RunsAsAlone ==
    /\ Buffered =>
           /\ IsPrefix(out, payloads)
           /\ pc = "returned" => (out = payloads /\ result = Join(payloads))
    /\ (Streamed /\ ~short) =>
           /\ exc = "none"
           /\ IsPrefix(out, NonEmpty(payloads))
           /\ pc = "done" => out = NonEmpty(payloads)
    /\ Chunked =>
           /\ Join(out) \o data = SubSeq(body, 1, pos)
           /\ pc = "done" => Join(out) = body
    /\ pc \in {"returned", "done"} => pos = Len(body)

(* C22: two demultiplex or chunk-reading calls on distinct responses,     *)
(* interleaved in any way at their suspension points, each yield what     *)
(* they yield alone; a step of one call leaves every variable of the      *)
(* other as it was, and a call resumes with the buffer, cursor and length *)
(* it was left with.                                                      *)
ConcurrentCallsIndependent ==
    /\ []RunsAsAlone
    /\ [][IF current' = current
          THEN other' = other
          ELSE other' = Context /\ Context' = other]_vars

ConcurrentCallsIndependentWitness ==
    /\ current = 2
    /\ Streamed
    /\ Len(payloads) = 3
    /\ Len(out) = 1
    /\ pc = "header"
    /\ other.entry = "_get_result_tty"
    /\ ~other.stream
    /\ other.pc = "walk"
    /\ Len(other.out) = 2
    /\ other.walker = 18

(* C23: on every finite buffer, whatever its bytes and whatever lengths   *)
(* its headers declare, the buffered frame walk ends by returning; every  *)
(* turn that yields moves the cursor on by at least 8, and the elements   *)
(* yielded are at most floor(len(buf) / 8).                               *)
BufferedWalkTerminates ==
    /\ [](Buffered =>
            /\ Len(out) <= Len(buf) \div STREAM_HEADER_SIZE_BYTES
            /\ Len(out) * STREAM_HEADER_SIZE_BYTES <= walker
            /\ exc = "none")
    /\ [][(pc = "walk" /\ pc' = "walk") =>
            /\ walker' >= walker + STREAM_HEADER_SIZE_BYTES
            /\ Len(out') = Len(out) + 1]_vars
    /\ [][pc' = "returned" => (pc = "walk" /\ walker' = walker /\ out' = out)]_vars
    /\ (pc = "walk") ~> (pc = "returned")

BufferedWalkTerminatesWitness ==
    /\ Buffered
    /\ pc = "returned"
    /\ Len(buf) = 20
    /\ UnpackTag(buf) = 127
    /\ UnpackLength(SubSeq(buf, 1, 8)) = 1
    /\ Len(out) = 2
    /\ out[1] = <<65>>
    /\ walker > 1073741824

\* The number a byte string spells, most significant byte first.
RECURSIVE BigEndian(_)
BigEndian(bytes) ==
    IF bytes = <<>> THEN 0
    ELSE 256 * BigEndian(SubSeq(bytes, 1, Len(bytes) - 1)) + bytes[Len(bytes)]

\* The length bytes 4..7 of the first header of the body spell.
DeclaredLength == BigEndian(SubSeq(body, 5, 8))

(* C24: the length decoded from an 8-byte header is the big-endian number *)
(* of its bytes 4..7 and the tag is its byte 0, whatever bytes 1..3 are;  *)
(* the payload of the frame is the bytes after the header up to that      *)
(* length, whatever the tag is.                                           *)
FrameHeaderDecode ==
    /\ \A t \in TagBytes, p1 \in PadBytes, p2 \in PadBytes, p3 \in PadBytes :
           LET header == <<t, p1, p2, p3>> \o SubSeq(body, 5, 8)
           IN  /\ UnpackLength(header) = DeclaredLength
               /\ UnpackTag(header) = t
    /\ (Streamed /\ pc = "payload" /\ out = <<>>) => length = DeclaredLength
    /\ (Streamed /\ out # <<>>) =>
           /\ Len(out[1]) <= DeclaredLength
           /\ out[1] = SubSeq(body, STREAM_HEADER_SIZE_BYTES + 1,
                              STREAM_HEADER_SIZE_BYTES + Len(out[1]))
    /\ (Buffered /\ out # <<>>) =>
           /\ out[1] = Slice(body, STREAM_HEADER_SIZE_BYTES,
                             STREAM_HEADER_SIZE_BYTES + DeclaredLength)
           /\ Len(out) = 1 =>
                  walker = STREAM_HEADER_SIZE_BYTES + DeclaredLength

FrameHeaderDecodeWitness ==
    /\ Buffered
    /\ pc = "returned"
    /\ SubSeq(body, 1, 4) = <<255, 127, 0, 127>>
    /\ DeclaredLength = 258
    /\ Len(body) = 10
    /\ out = <<PayloadOf(2)>>
    /\ walker = 266

=============================================================================
